---- MODULE Spec2Model ----
(***************************************************************************)
(* Model of the components, hooks and helpers of the repository, each      *)
(* with its own specification; a specification leaves the variables of     *)
(* the other components at their initial values.                           *)
(*                                                                         *)
(* UserList (src/src/components/LoginForm.tsx, lines 396-496), Spec: a     *)
(* fetch-on-mount loader with loading / error / success state and a        *)
(* closure-captured `cancelled` flag per effect run.  One effect run       *)
(* ("cycle") is one record of `effects`.  The promise returned by          *)
(* fetchUsers settles in one step (FetchSettle) and the continuation of    *)
(* load() after `await` runs in a later step (LoadResume), so that a       *)
(* re-render or an unmount can come between the two.                       *)
(*                                                                         *)
(* LoginForm (LoginForm.tsx, lines 18-190), SpecLogin: validation, the     *)
(* awaited onSubmit call and its settlement.  Strings are sequences of     *)
(* characters.                                                             *)
(*                                                                         *)
(* Counter (src/src/components/Counter.tsx, lines 17-93), SpecCounter.     *)
(*                                                                         *)
(* TodoList (LoginForm.tsx, lines 212-377), SpecTodo: ids come from the    *)
(* clock `now`, which may or may not advance between two events.           *)
(*                                                                         *)
(* Toggle widget (Counter.tsx, lines 108-134) and useToggle                *)
(* (src/src/hooks/useToggle.ts, lines 7-15), SpecToggle: the hook's calls  *)
(* are queued and applied by a later render, in batches of any size.       *)
(*                                                                         *)
(* useLocalStorage (useToggle.ts, lines 21-47), SpecStorage: setValue      *)
(* reads the storedValue of the last render; localStorage may work, deny   *)
(* every access, or refuse writes.                                         *)
(*                                                                         *)
(* debounce (src/src/utils/helpers.ts, lines 48-57), SpecDebounce: timers  *)
(* on a millisecond clock, with weak fairness of firing and of the clock.  *)
(***************************************************************************)
EXTENDS Integers, Sequences, FiniteSets, TLC

\* Number of effect runs (mount + changes of the fetchUsers prop) explored.
MaxCycles == 3

VARIABLES
    users,       \* useState<User[]>([])
    loading,     \* useState(true)
    error,       \* useState<string | null>(null)
    fetchUsers,  \* identity of the fetchUsers prop of the last render
    phase,       \* "rendered" (before the first effect), "mounted", "unmounted"
    effects,     \* one record per run of the effect, in the order of the runs
    fetchCalls,  \* the argument lists fetchUsers has been called with
    propChanges  \* number of renders that passed a different fetchUsers

vars == <<users, loading, error, fetchUsers, phase, effects, fetchCalls, propChanges>>

\* Validated submissions of the LoginForm explored.
MaxSubmits == 2

\* Accepted updates of the Counter explored.
MaxUpdates == 3

\* Todos added to the TodoList, and milliseconds that pass meanwhile.
MaxTodos == 2
MaxTime == 1

VARIABLES
    op,           \* the handler that ran last: [name, arg]
    email,        \* LoginForm: useState("")
    password,     \* LoginForm: useState("")
    errors,       \* LoginForm: useState<Record<string, string>>({})
    isSubmitting, \* LoginForm: useState(false)
    success,      \* LoginForm: useState(false)
    submission,   \* LoginForm: the handleSubmit call that is awaiting onSubmit
    submitCalls,  \* LoginForm: the arguments onSubmit has been called with
    initialCount, \* Counter: prop
    step,         \* Counter: prop
    max,          \* Counter: prop (number | undefined)
    count,        \* Counter: useState(initialCount)
    countCalls,   \* Counter: the arguments onCountChange has been called with
    todos,        \* TodoList: useState<Todo[]>([])
    input,        \* TodoList: useState("")
    filter,       \* TodoList: useState("all")
    now           \* TodoList: the value Date.now() returns

\* Clicks on the Toggle widget and calls of the useToggle functions explored.
MaxClicks == 3
MaxToggleCalls == 4

\* Calls of useLocalStorage's setValue / removeValue explored, and the largest
\* number stored.
MaxStorageCalls == 3
MaxStored == 12

\* Calls of the debounced function explored, and milliseconds on its clock.
MaxDebounceCalls == 3
MaxClock == 4

VARIABLES
    defaultOn,    \* Toggle: prop
    isOn,         \* Toggle: useState(defaultOn)
    toggleCalls,  \* Toggle: the arguments onToggle has been called with
    initial,      \* useToggle: argument
    value,        \* useToggle: useState(initial), as of the last render
    tgQueue,      \* useToggle: setValue updates queued since the last render
    tgHistory,    \* useToggle: every call made so far, in order
    lsMode,       \* useLocalStorage: "ok", or "denied" when storage access throws
    lsInitial,    \* useLocalStorage: initialValue argument
    storedValue,  \* useLocalStorage: useState value, as of the last render
    lsQueued,     \* useLocalStorage: setStoredValue update awaiting the next render
    storage,      \* useLocalStorage: localStorage[key]
    lsThrew,      \* useLocalStorage: the last call ended with an exception
    lsCalls,      \* useLocalStorage: number of calls made
    delay,        \* debounce: argument
    dbNow,        \* debounce: the timer clock
    timers,       \* debounce: timers set and neither fired nor cleared
    timeoutId,    \* debounce: let timeoutId (0 while unassigned)
    dbLog         \* debounce: calls of the debounced function and of fn, in order

lfVars == <<email, password, errors, isSubmitting, success, submission, submitCalls>>
ctrVars == <<initialCount, step, max, count, countCalls>>
tdVars == <<todos, input, filter, now>>

twVars == <<defaultOn, isOn, toggleCalls>>
utVars == <<initial, value, tgQueue, tgHistory>>
stVars == <<lsMode, lsInitial, storedValue, lsQueued, storage, lsThrew, lsCalls>>
dbVars == <<delay, dbNow, timers, timeoutId, dbLog>>
hkVars == <<twVars, utVars, stVars, dbVars>>

allVars == <<vars, op, lfVars, ctrVars, tdVars, hkVars>>

NoOp == [name |-> "none", arg |-> 0]

\* No state update is waiting for a render.
NoQueued == [has |-> FALSE, value |-> 0]

\* localStorage.getItem(key) === null
NoItem == [present |-> FALSE, text |-> <<>>]

---------------------------------------------------------------------------
\* Values

\* string | null
Null == [isNull |-> TRUE, str |-> ""]
Str(s) == [isNull |-> FALSE, str |-> s]

\* JavaScript truthiness of a string | null, as tested by `if (error)`.
Truthy(e) == ~e.isNull /\ e.str # ""

\* Identities of the functions passed as the fetchUsers prop.
Fns == {"f", "g"}

\* Lists a fetch may fulfil with (User[]; a user is named by its id).
UserLists == {<<>>, <<"u1">>, <<"u1", "u2">>, <<"u2", "u1">>}

\* Values a fetch may reject with or throw: Error instances, other objects
\* (with or without a message field) and undefined.
Undefined == [kind |-> "undefined", hasMessage |-> FALSE, message |-> ""]
Reasons ==
    { [kind |-> "Error", hasMessage |-> TRUE, message |-> "boom"],
      [kind |-> "Error", hasMessage |-> TRUE, message |-> ""],
      [kind |-> "object", hasMessage |-> TRUE, message |-> "boom"],
      [kind |-> "object", hasMessage |-> FALSE, message |-> ""],
      Undefined }

\* What one call of fetchUsers does: throw synchronously, or return a promise
\* that is still pending (and may be one that never settles).
Behaviours ==
    [type : {"promise"}, never : BOOLEAN, reason : {Undefined}]
      \cup [type : {"throw"}, never : {FALSE}, reason : Reasons]

\* What a pending promise settles to.
Outcomes ==
    [status : {"fulfilled"}, data : UserLists, reason : {Undefined}]
      \cup [status : {"rejected"}, data : {<<>>}, reason : Reasons]

---------------------------------------------------------------------------
\* load()

\* err instanceof Error
InstanceOfError(err) == err.kind = "Error"

\* Mutant: duck-typed, any value carrying a message field.
ErrorMessageDuck(err) ==
    IF err.hasMessage THEN err.message ELSE "Something went wrong"

\* err instanceof Error ? err.message : "Something went wrong"
ErrorMessage(err) ==
    IF InstanceOfError(err) THEN err.message ELSE "Something went wrong"

\* Mutant: the stale-result guard is missing.
NotCancelledAlways(c) == TRUE

\* !cancelled, read from the closure of the effect run c
NotCancelled(c) == ~c.cancelled

\* The three branches of the render.
View ==
    IF loading THEN "loading-spinner"
    ELSE IF Truthy(error) THEN "error-message"
    ELSE "user-list"

\* The load state the consumer observes.
State ==
    CASE View = "loading-spinner" -> "Loading"
      [] View = "error-message" -> "Failure"
      [] View = "user-list" -> "Success"

Cur == effects[Len(effects)]

\* Mutant: the cleanup does not set the flag.
CleanupNoop(es) == es

\* The cleanup of the latest effect run: cancelled = true.
Cleanup(es) ==
    IF es = <<>> THEN es
    ELSE [es EXCEPT ![Len(es)].cancelled = TRUE]

\* A new effect run: `let cancelled = false` and a call of load(), which runs
\* synchronously up to the await (or through catch and finally when
\* fetchUsers throws).
RunEffect(fn, b) ==
    /\ effects' = Append(Cleanup(effects),
           [fn        |-> fn,
            cancelled |-> FALSE,
            never     |-> b.never,
            promise   |-> IF b.type = "throw" THEN "threw" ELSE "pending",
            data      |-> <<>>,
            reason    |-> b.reason,
            pc        |-> IF b.type = "throw" THEN "done" ELSE "await",
            returned  |-> IF b.type = "throw" THEN "fulfilled" ELSE "pending",
            committed |-> b.type = "throw",
            usersAtStart |-> users])
    /\ fetchCalls' = Append(fetchCalls, <<>>)
    /\ IF b.type = "throw"
       THEN /\ error' = Str(ErrorMessage(b.reason))
            /\ loading' = FALSE
       ELSE /\ error' = Null
            /\ loading' = TRUE
    /\ UNCHANGED users

---------------------------------------------------------------------------
\* Actions

Init ==
    /\ users = <<>>
    /\ loading = TRUE
    /\ error = Null
    /\ fetchUsers = "f"
    /\ phase = "rendered"
    /\ effects = <<>>
    /\ fetchCalls = <<>>
    /\ propChanges = 0
    \* the other components are not rendered
    /\ op = NoOp
    /\ email = <<>>
    /\ password = <<>>
    /\ errors = <<>>
    /\ isSubmitting = FALSE
    /\ success = FALSE
    /\ submission = [status |-> "none", never |-> FALSE, email |-> <<>>,
                     password |-> <<>>, returned |-> "none"]
    /\ submitCalls = <<>>
    /\ initialCount = 0
    /\ step = 1
    /\ max = [defined |-> FALSE, value |-> 0]
    /\ count = 0
    /\ countCalls = <<>>
    /\ todos = <<>>
    /\ input = <<>>
    /\ filter = "all"
    /\ now = 0
    /\ defaultOn = FALSE
    /\ isOn = FALSE
    /\ toggleCalls = <<>>
    /\ initial = FALSE
    /\ value = FALSE
    /\ tgQueue = <<>>
    /\ tgHistory = <<>>
    /\ lsMode = "ok"
    /\ lsInitial = 0
    /\ storedValue = 0
    /\ lsQueued = NoQueued
    /\ storage = NoItem
    /\ lsThrew = FALSE
    /\ lsCalls = 0
    /\ delay = 0
    /\ dbNow = 0
    /\ timers = {}
    /\ timeoutId = 0
    /\ dbLog = <<>>

\* The effect of the first render.
Mount ==
    /\ phase = "rendered"
    /\ \E b \in Behaviours : RunEffect(fetchUsers, b)
    /\ phase' = "mounted"
    /\ UNCHANGED <<fetchUsers, propChanges>>
    /\ UNCHANGED <<op, lfVars, ctrVars, tdVars, hkVars>>

\* Mutant: the effect has no dependency list and runs after every render.
EffectDepsChangedAlways(fn) == TRUE

\* useEffect(..., [fetchUsers]): the effect re-runs when the prop changed.
EffectDepsChanged(fn) == fn # fetchUsers

\* A re-render with the fetchUsers prop fn.
Rerender ==
    /\ phase = "mounted"
    /\ \E fn \in Fns :
        /\ fetchUsers' = fn
        /\ IF EffectDepsChanged(fn)
           THEN /\ Len(effects) < MaxCycles
                /\ \E b \in Behaviours : RunEffect(fn, b)
                /\ propChanges' = propChanges + (IF fn # fetchUsers THEN 1 ELSE 0)
           ELSE UNCHANGED <<users, loading, error, effects, fetchCalls, propChanges>>
    /\ UNCHANGED phase
    /\ UNCHANGED <<op, lfVars, ctrVars, tdVars, hkVars>>

\* The component is unmounted: the cleanup of the latest effect run runs.
Unmount ==
    /\ phase \in {"mounted", "unmounted"}
    /\ effects' = Cleanup(effects)
    /\ phase' = "unmounted"
    /\ UNCHANGED <<users, loading, error, fetchUsers, fetchCalls, propChanges>>
    /\ UNCHANGED <<op, lfVars, ctrVars, tdVars, hkVars>>

\* The promise returned by the i-th call of fetchUsers settles.
FetchSettle ==
    \E i \in 1..Len(effects), o \in Outcomes :
        /\ effects[i].promise = "pending"
        /\ ~effects[i].never
        /\ effects' = [effects EXCEPT ![i].promise = o.status,
                                      ![i].data = o.data,
                                      ![i].reason = o.reason]
        /\ UNCHANGED <<users, loading, error, fetchUsers, phase, fetchCalls, propChanges>>
        /\ UNCHANGED <<op, lfVars, ctrVars, tdVars, hkVars>>

\* load() of the i-th effect run resumes after the await.
LoadResume ==
    \E i \in 1..Len(effects) :
        LET c == effects[i] IN
        /\ c.pc = "await"
        /\ c.promise \in {"fulfilled", "rejected"}
        /\ users' = IF c.promise = "fulfilled" /\ NotCancelled(c) THEN c.data ELSE users
        /\ error' = IF c.promise = "rejected" /\ NotCancelled(c)
                    THEN Str(ErrorMessage(c.reason)) ELSE error
        /\ loading' = IF NotCancelled(c) THEN FALSE ELSE loading
        \* a discarded result is dropped with the closure that held it
        /\ effects' = [effects EXCEPT ![i].pc = "done",
                                      ![i].returned = "fulfilled",
                                      ![i].committed = NotCancelled(c),
                                      ![i].data = IF NotCancelled(c) THEN c.data ELSE <<>>,
                                      ![i].reason = IF NotCancelled(c) THEN c.reason ELSE Undefined]
        /\ UNCHANGED <<fetchUsers, phase, fetchCalls, propChanges>>
        /\ UNCHANGED <<op, lfVars, ctrVars, tdVars, hkVars>>

Next == Mount \/ Rerender \/ Unmount \/ FetchSettle \/ LoadResume

---------------------------------------------------------------------------
\* The other components of the repository.  Each has its own variables and
\* its own specification; in the specification of one component the others
\* stay as they are before they are rendered.

---------------------------------------------------------------------------
\* LoginForm (src/src/components/LoginForm.tsx, lines 18-190)

\* Strings are sequences of characters.
Whitespace == {" ", "\t"}

\* \S
NonSpace(ch) == ch \notin Whitespace

\* /\S+@\S+\.\S+/.test(s): somewhere in s, a non-space run, "@", a non-space
\* run, ".", a non-space run (the pattern is not anchored).
EmailRegexTest(s) ==
    \E p, q \in 1..Len(s) :
        /\ s[p] = "@"
        /\ s[q] = "."
        /\ p >= 2 /\ NonSpace(s[p - 1])
        /\ q >= p + 2
        /\ \A k \in (p + 1)..(q - 1) : NonSpace(s[k])
        /\ q < Len(s) /\ NonSpace(s[q + 1])

\* password.length < 6
MinPasswordLength == 6

\* Values typed into the two fields.
Emails ==
    { <<>>,
      <<"a", "@", "b", ".", "c">>,
      <<"a", "b">>,
      <<"a", "@", "b">>,
      <<"@", "b", ".", "c">>,
      <<"a", "@", ".", "c">>,
      <<"a", " ", "@", "b", ".", "c">>,
      <<" ", "a", "@", "b", ".", "c">> }

Passwords ==
    { <<>>,
      <<"p", "a", "s", "s", "1">>,
      <<"p", "a", "s", "s", "1", "2">> }

\* {}
NoErrors == [k \in {} |-> ""]

\* { form: "Login failed. Please try again." }
FormError == [k \in {"form"} |-> "Login failed. Please try again."]

\* Mutant: the format of the email is not checked.
ValidateErrorsNoFormat(e, p) ==
    LET keys == (IF e = <<>> THEN {"email"} ELSE {})
                  \cup (IF p = <<>> \/ Len(p) < MinPasswordLength THEN {"password"} ELSE {})
    IN  [k \in keys |->
            IF k = "email" THEN "Email is required"
            ELSE IF p = <<>> THEN "Password is required"
            ELSE "Password must be at least 6 characters"]

\* validate(): the newErrors object it builds and stores.
ValidateErrors(e, p) ==
    LET keys == (IF e = <<>> \/ ~EmailRegexTest(e) THEN {"email"} ELSE {})
                  \cup (IF p = <<>> \/ Len(p) < MinPasswordLength THEN {"password"} ELSE {})
    IN  [k \in keys |->
            IF k = "email"
            THEN (IF e = <<>> THEN "Email is required" ELSE "Invalid email format")
            ELSE (IF p = <<>> THEN "Password is required"
                  ELSE "Password must be at least 6 characters")]

\* The state of the form as one record.
Form ==
    [email |-> email, password |-> password, errors |-> errors,
     isSubmitting |-> isSubmitting, success |-> success]

\* Mutant: the flag is not raised.
SubmitStartNoFlag(st) == [st EXCEPT !.errors = NoErrors]

\* validate() passed: setErrors({}) and setIsSubmitting(true).
SubmitStart(st) == [st EXCEPT !.errors = NoErrors, !.isSubmitting = TRUE]

\* Mutant: the fields are not reset.
SubmitResolvedKeepsFields(st) == [st EXCEPT !.success = TRUE, !.errors = NoErrors]

\* After the await: setSuccess(true); setEmail(""); setPassword(""); setErrors({}).
SubmitResolved(st) ==
    [st EXCEPT !.success = TRUE, !.email = <<>>, !.password = <<>>, !.errors = NoErrors]

\* Mutant: the password field is cleared on failure.
SubmitRejectedClearsPassword(st) == [st EXCEPT !.errors = FormError, !.password = <<>>]

\* catch: setErrors({ form: ... }).
SubmitRejected(st) == [st EXCEPT !.errors = FormError]

\* finally: setIsSubmitting(false).
SubmitFinally(st) == [st EXCEPT !.isSubmitting = FALSE]

\* The form is replaced by the success message once success is true.
FormRendered == ~success

\* <button type="submit" disabled={isSubmitting}>
SubmitDisabled == isSubmitting

\* The text of the submit button.
SubmitLabel == IF isSubmitting THEN "Signing in..." ELSE "Sign In"

NoSubmission ==
    [status |-> "none", never |-> FALSE, email |-> <<>>, password |-> <<>>,
     returned |-> "none"]

\* The form as first rendered; the other components are not rendered.
LoginInit ==
    /\ op = NoOp
    /\ email = <<>>
    /\ password = <<>>
    /\ errors = NoErrors
    /\ isSubmitting = FALSE
    /\ success = FALSE
    /\ submission = NoSubmission
    /\ submitCalls = <<>>
    /\ users = <<>>
    /\ loading = TRUE
    /\ error = Null
    /\ fetchUsers = "f"
    /\ phase = "rendered"
    /\ effects = <<>>
    /\ fetchCalls = <<>>
    /\ propChanges = 0
    /\ initialCount = 0
    /\ step = 1
    /\ max = [defined |-> FALSE, value |-> 0]
    /\ count = 0
    /\ countCalls = <<>>
    /\ todos = <<>>
    /\ input = <<>>
    /\ filter = "all"
    /\ now = 0
    /\ defaultOn = FALSE
    /\ isOn = FALSE
    /\ toggleCalls = <<>>
    /\ initial = FALSE
    /\ value = FALSE
    /\ tgQueue = <<>>
    /\ tgHistory = <<>>
    /\ lsMode = "ok"
    /\ lsInitial = 0
    /\ storedValue = 0
    /\ lsQueued = NoQueued
    /\ storage = NoItem
    /\ lsThrew = FALSE
    /\ lsCalls = 0
    /\ delay = 0
    /\ dbNow = 0
    /\ timers = {}
    /\ timeoutId = 0
    /\ dbLog = <<>>

SetForm(st) ==
    /\ email' = st.email
    /\ password' = st.password
    /\ errors' = st.errors
    /\ isSubmitting' = st.isSubmitting
    /\ success' = st.success

\* onChange of the email field.
TypeEmail ==
    /\ FormRendered
    /\ \E v \in Emails : email' = v
    /\ op' = [name |-> "typeEmail", arg |-> 0]
    /\ UNCHANGED <<password, errors, isSubmitting, success, submission, submitCalls>>
    /\ UNCHANGED <<vars, ctrVars, tdVars, hkVars>>

\* onChange of the password field.
TypePassword ==
    /\ FormRendered
    /\ \E v \in Passwords : password' = v
    /\ op' = [name |-> "typePassword", arg |-> 0]
    /\ UNCHANGED <<email, errors, isSubmitting, success, submission, submitCalls>>
    /\ UNCHANGED <<vars, ctrVars, tdVars, hkVars>>

\* handleSubmit up to the await: the submit button is clicked.  onSubmit
\* returns a promise (one that may never settle) or throws.
HandleSubmit ==
    /\ FormRendered
    /\ ~SubmitDisabled
    /\ op' = [name |-> "submit", arg |-> 0]
    /\ UNCHANGED <<vars, ctrVars, tdVars, hkVars>>
    /\ LET errs == ValidateErrors(email, password) IN
       IF DOMAIN errs # {}
       THEN /\ errors' = errs
            /\ UNCHANGED <<email, password, isSubmitting, success, submission, submitCalls>>
       ELSE /\ Len(submitCalls) < MaxSubmits
            /\ submitCalls' = Append(submitCalls, [email |-> email, password |-> password])
            /\ \E throws, never \in BOOLEAN :
                  /\ throws => ~never
                  /\ SetForm(IF throws
                             THEN SubmitFinally(SubmitRejected(SubmitStart(Form)))
                             ELSE SubmitStart(Form))
                  /\ submission' =
                        [status   |-> IF throws THEN "threw" ELSE "pending",
                         never    |-> never,
                         email    |-> email,
                         password |-> password,
                         returned |-> IF throws THEN "fulfilled" ELSE "pending"]

\* The promise returned by onSubmit settles and handleSubmit resumes.
SubmitSettle ==
    /\ submission.status = "pending"
    /\ ~submission.never
    /\ \E ok \in BOOLEAN :
          /\ SetForm(SubmitFinally(IF ok THEN SubmitResolved(Form) ELSE SubmitRejected(Form)))
          /\ submission' = [submission EXCEPT
                               !.status = IF ok THEN "fulfilled" ELSE "rejected",
                               !.returned = "fulfilled"]
          /\ op' = [name |-> IF ok THEN "resolve" ELSE "reject", arg |-> 0]
    /\ UNCHANGED submitCalls
    /\ UNCHANGED <<vars, ctrVars, tdVars, hkVars>>

LoginNext == TypeEmail \/ TypePassword \/ HandleSubmit \/ SubmitSettle

---------------------------------------------------------------------------
\* Counter (src/src/components/Counter.tsx, lines 17-93)

\* max?: number
NoMax == [defined |-> FALSE, value |-> 0]
Max(v) == [defined |-> TRUE, value |-> v]

\* Props a Counter is rendered with.
InitialCounts == {-3, 0, 9}
Steps == {-1, 1, 5}
Maxes == {NoMax, Max(-1), Max(10)}

\* An update that ignores the max bound.
UpdateAcceptsAlways(newCount) == TRUE

\* update: if (max !== undefined && newCount > max) return;
UpdateAccepts(newCount) == ~(max.defined /\ newCount > max.value)

\* A callback that reports the count of the current render.
CallbackArgStale(newCount) == count

\* onCountChange?.(newCount)
CallbackArg(newCount) == newCount

\* update(newCount)
Update(newCount) ==
    IF UpdateAccepts(newCount)
    THEN /\ count' = newCount
         /\ countCalls' = Append(countCalls, CallbackArg(newCount))
    ELSE UNCHANGED <<count, countCalls>>

\* const isMax = max !== undefined && count >= max;
IsMax == max.defined /\ count >= max.value

\* disabled={isMax}
IncrementDisabled == IsMax

\* {isMax && <p role="alert">Maximum value reached!</p>}
AlertShown == IsMax

\* {count !== 0 && <button ... data-testid="reset-button">}
ResetRendered == count # 0

\* A reset that returns to the initial count.
ResetTargetInitial == initialCount

\* onClick={() => update(0)}
ResetTarget == 0

\* A decrement that ignores the step.
DecrementTargetOne == count - 1

\* onClick={() => update(count - step)}
DecrementTarget == count - step

\* onClick={() => update(count + step)}
IncrementTarget == count + step

\* The counter as first rendered with some props; the other components are
\* not rendered.
CounterInit ==
    /\ op = NoOp
    /\ initialCount \in InitialCounts
    /\ step \in Steps
    /\ max \in Maxes
    /\ count = initialCount
    /\ countCalls = <<>>
    /\ users = <<>>
    /\ loading = TRUE
    /\ error = Null
    /\ fetchUsers = "f"
    /\ phase = "rendered"
    /\ effects = <<>>
    /\ fetchCalls = <<>>
    /\ propChanges = 0
    /\ email = <<>>
    /\ password = <<>>
    /\ errors = NoErrors
    /\ isSubmitting = FALSE
    /\ success = FALSE
    /\ submission = NoSubmission
    /\ submitCalls = <<>>
    /\ todos = <<>>
    /\ input = <<>>
    /\ filter = "all"
    /\ now = 0
    /\ defaultOn = FALSE
    /\ isOn = FALSE
    /\ toggleCalls = <<>>
    /\ initial = FALSE
    /\ value = FALSE
    /\ tgQueue = <<>>
    /\ tgHistory = <<>>
    /\ lsMode = "ok"
    /\ lsInitial = 0
    /\ storedValue = 0
    /\ lsQueued = NoQueued
    /\ storage = NoItem
    /\ lsThrew = FALSE
    /\ lsCalls = 0
    /\ delay = 0
    /\ dbNow = 0
    /\ timers = {}
    /\ timeoutId = 0
    /\ dbLog = <<>>

\* Click on the Increment button.
ClickIncrement ==
    /\ ~IncrementDisabled
    /\ Len(countCalls) < MaxUpdates
    /\ Update(IncrementTarget)
    /\ op' = [name |-> "increment", arg |-> IncrementTarget]
    /\ UNCHANGED <<initialCount, step, max>>
    /\ UNCHANGED <<vars, lfVars, tdVars, hkVars>>

\* Click on the Decrement button.
ClickDecrement ==
    /\ Len(countCalls) < MaxUpdates
    /\ Update(DecrementTarget)
    /\ op' = [name |-> "decrement", arg |-> DecrementTarget]
    /\ UNCHANGED <<initialCount, step, max>>
    /\ UNCHANGED <<vars, lfVars, tdVars, hkVars>>

\* Click on the Reset button.
ClickReset ==
    /\ ResetRendered
    /\ Len(countCalls) < MaxUpdates
    /\ Update(ResetTarget)
    /\ op' = [name |-> "reset", arg |-> ResetTarget]
    /\ UNCHANGED <<initialCount, step, max>>
    /\ UNCHANGED <<vars, lfVars, tdVars, hkVars>>

CounterNext == ClickIncrement \/ ClickDecrement \/ ClickReset

---------------------------------------------------------------------------
\* TodoList (src/src/components/LoginForm.tsx, lines 212-377)

\* Values typed into the "New todo" field.
Inputs ==
    { <<>>,
      <<" ">>,
      <<" ", "a", "\t">>,
      <<"b", " ", "c">> }

\* "all" | "active" | "completed"
Filters == {"all", "active", "completed"}

RECURSIVE TrimStart(_)
\* String.prototype.trimStart
TrimStart(s) ==
    IF s # <<>> /\ Head(s) \in Whitespace THEN TrimStart(Tail(s)) ELSE s

RECURSIVE TrimEnd(_)
\* String.prototype.trimEnd
TrimEnd(s) ==
    IF s # <<>> /\ s[Len(s)] \in Whitespace
    THEN TrimEnd(SubSeq(s, 1, Len(s) - 1))
    ELSE s

\* A trim that strips leading whitespace only.
TrimOnlyStart(s) == TrimStart(s)

\* input.trim()
Trim(s) == TrimEnd(TrimStart(s))

\* { id: Date.now(), text, completed: false }
NewTodo(text) == [id |-> now, text |-> text, completed |-> FALSE]

RECURSIVE MapToggle(_, _)
\* prev.map((t) => (t.id === id ? { ...t, completed: !t.completed } : t))
MapToggle(prev, id) ==
    IF prev = <<>> THEN <<>>
    ELSE <<IF Head(prev).id = id
           THEN [Head(prev) EXCEPT !.completed = ~@]
           ELSE Head(prev)>> \o MapToggle(Tail(prev), id)

RECURSIVE FilterOutId(_, _)
\* prev.filter((t) => t.id !== id)
FilterOutId(prev, id) ==
    IF prev = <<>> THEN <<>>
    ELSE (IF Head(prev).id # id THEN <<Head(prev)>> ELSE <<>>)
             \o FilterOutId(Tail(prev), id)

\* A filter that shows every todo.
VisibleAll(t) == TRUE

\* The predicate of filteredTodos.
Visible(t) ==
    IF filter = "active" THEN ~t.completed
    ELSE IF filter = "completed" THEN t.completed
    ELSE TRUE

RECURSIVE FilterVisible(_)
FilterVisible(ts) ==
    IF ts = <<>> THEN <<>>
    ELSE (IF Visible(Head(ts)) THEN <<Head(ts)>> ELSE <<>>)
             \o FilterVisible(Tail(ts))

\* const filteredTodos = todos.filter(...)
FilteredTodos == FilterVisible(todos)

\* const activeCount = todos.filter((t) => !t.completed).length
ActiveCount == Cardinality({i \in DOMAIN todos : ~todos[i].completed})

\* disabled={!input.trim()}
AddDisabled == Trim(input) = <<>>

\* The list as first rendered; the other components are not rendered.
TodoInit ==
    /\ op = NoOp
    /\ todos = <<>>
    /\ input = <<>>
    /\ filter = "all"
    /\ now = 0
    /\ users = <<>>
    /\ loading = TRUE
    /\ error = Null
    /\ fetchUsers = "f"
    /\ phase = "rendered"
    /\ effects = <<>>
    /\ fetchCalls = <<>>
    /\ propChanges = 0
    /\ email = <<>>
    /\ password = <<>>
    /\ errors = NoErrors
    /\ isSubmitting = FALSE
    /\ success = FALSE
    /\ submission = NoSubmission
    /\ submitCalls = <<>>
    /\ initialCount = 0
    /\ step = 1
    /\ max = NoMax
    /\ count = 0
    /\ countCalls = <<>>
    /\ defaultOn = FALSE
    /\ isOn = FALSE
    /\ toggleCalls = <<>>
    /\ initial = FALSE
    /\ value = FALSE
    /\ tgQueue = <<>>
    /\ tgHistory = <<>>
    /\ lsMode = "ok"
    /\ lsInitial = 0
    /\ storedValue = 0
    /\ lsQueued = NoQueued
    /\ storage = NoItem
    /\ lsThrew = FALSE
    /\ lsCalls = 0
    /\ delay = 0
    /\ dbNow = 0
    /\ timers = {}
    /\ timeoutId = 0
    /\ dbLog = <<>>

\* onChange={(e) => setInput(e.target.value)}
TypeInput ==
    /\ \E v \in Inputs : input' = v
    /\ op' = [name |-> "type", arg |-> 0]
    /\ UNCHANGED <<todos, filter, now>>
    /\ UNCHANGED <<vars, lfVars, ctrVars, hkVars>>

\* addTodo, from the Enter key or from the Add button.
AddTodo ==
    /\ LET text == Trim(input) IN
       IF text = <<>>
       THEN UNCHANGED <<todos, input>>
       ELSE /\ Len(todos) < MaxTodos
            /\ todos' = Append(todos, NewTodo(text))
            /\ input' = <<>>
    /\ op' = [name |-> "add", arg |-> now]
    /\ UNCHANGED <<filter, now>>
    /\ UNCHANGED <<vars, lfVars, ctrVars, hkVars>>

\* toggleTodo(todo.id), from the checkbox of the displayed item todos[i].
ToggleTodo ==
    /\ \E i \in DOMAIN todos :
          /\ Visible(todos[i])
          /\ todos' = MapToggle(todos, todos[i].id)
          /\ op' = [name |-> "toggle", arg |-> i]
    /\ UNCHANGED <<input, filter, now>>
    /\ UNCHANGED <<vars, lfVars, ctrVars, hkVars>>

\* deleteTodo(todo.id), from the Delete button of the displayed item todos[i].
DeleteTodo ==
    /\ \E i \in DOMAIN todos :
          /\ Visible(todos[i])
          /\ todos' = FilterOutId(todos, todos[i].id)
          /\ op' = [name |-> "delete", arg |-> i]
    /\ UNCHANGED <<input, filter, now>>
    /\ UNCHANGED <<vars, lfVars, ctrVars, hkVars>>

\* onClick={() => setFilter(f)}
SetFilter ==
    /\ \E f \in Filters : filter' = f
    /\ op' = [name |-> "filter", arg |-> 0]
    /\ UNCHANGED <<todos, input, now>>
    /\ UNCHANGED <<vars, lfVars, ctrVars, hkVars>>

\* A millisecond passes on the clock read by Date.now().
Tick ==
    /\ now < MaxTime
    /\ now' = now + 1
    /\ op' = [name |-> "tick", arg |-> now + 1]
    /\ UNCHANGED <<todos, input, filter>>
    /\ UNCHANGED <<vars, lfVars, ctrVars, hkVars>>

TodoNext == TypeInput \/ AddTodo \/ ToggleTodo \/ DeleteTodo \/ SetFilter \/ Tick

---------------------------------------------------------------------------
\* Toggle widget (src/src/components/Counter.tsx, lines 108-134) and the
\* useToggle hook (src/src/hooks/useToggle.ts, lines 7-15)

\* A negation that changes nothing.
NegateNever(b) == b

\* const next = !isOn
Negate(b) == ~b

\* aria-checked={isOn}
AriaChecked == isOn

\* The updates the three functions of useToggle pass to setValue.
Updates == {"toggle", "on", "off"}

\* A toggle that negates the value of the last render instead of the value
\* the update queue has reached.
ApplyUpdateStale(v, u) == IF u = "toggle" THEN ~value ELSE u = "on"

\* setValue((v) => !v), setValue(true), setValue(false)
ApplyUpdate(v, u) == IF u = "toggle" THEN ~v ELSE u = "on"

RECURSIVE ApplyQueue(_, _)
\* The updates queued since the last render, applied in the order of the calls.
ApplyQueue(v, q) ==
    IF q = <<>> THEN v ELSE ApplyQueue(ApplyUpdate(v, Head(q)), Tail(q))

\* The widget and the hook as first rendered; the other components are not
\* rendered.
ToggleInit ==
    /\ op = NoOp
    /\ defaultOn \in BOOLEAN
    /\ isOn = defaultOn
    /\ toggleCalls = <<>>
    /\ initial \in BOOLEAN
    /\ value = initial
    /\ tgQueue = <<>>
    /\ tgHistory = <<>>
    /\ users = <<>>
    /\ loading = TRUE
    /\ error = Null
    /\ fetchUsers = "f"
    /\ phase = "rendered"
    /\ effects = <<>>
    /\ fetchCalls = <<>>
    /\ propChanges = 0
    /\ email = <<>>
    /\ password = <<>>
    /\ errors = NoErrors
    /\ isSubmitting = FALSE
    /\ success = FALSE
    /\ submission = NoSubmission
    /\ submitCalls = <<>>
    /\ initialCount = 0
    /\ step = 1
    /\ max = NoMax
    /\ count = 0
    /\ countCalls = <<>>
    /\ todos = <<>>
    /\ input = <<>>
    /\ filter = "all"
    /\ now = 0
    /\ lsMode = "ok"
    /\ lsInitial = 0
    /\ storedValue = 0
    /\ lsQueued = NoQueued
    /\ storage = NoItem
    /\ lsThrew = FALSE
    /\ lsCalls = 0
    /\ delay = 0
    /\ dbNow = 0
    /\ timers = {}
    /\ timeoutId = 0
    /\ dbLog = <<>>

\* Click on the switch: toggle().
ClickToggle ==
    /\ Len(toggleCalls) < MaxClicks
    /\ LET next == Negate(isOn) IN
          /\ isOn' = next
          /\ toggleCalls' = Append(toggleCalls, next)
    /\ op' = [name |-> "click", arg |-> 0]
    /\ UNCHANGED <<defaultOn, utVars>>
    /\ UNCHANGED <<vars, lfVars, ctrVars, tdVars, stVars, dbVars>>

\* A call of one of the functions the hook returned.
CallHook(u) ==
    /\ Len(tgHistory) < MaxToggleCalls
    /\ tgQueue' = Append(tgQueue, u)
    /\ tgHistory' = Append(tgHistory, u)
    /\ UNCHANGED <<initial, value, twVars>>
    /\ UNCHANGED <<vars, lfVars, ctrVars, tdVars, stVars, dbVars>>

\* toggle()
CallToggle == CallHook("toggle") /\ op' = [name |-> "toggle", arg |-> 0]

\* setOn()
CallSetOn == CallHook("on") /\ op' = [name |-> "setOn", arg |-> 0]

\* setOff()
CallSetOff == CallHook("off") /\ op' = [name |-> "setOff", arg |-> 0]

\* The render that follows one or more calls.
RenderHook ==
    /\ tgQueue # <<>>
    /\ value' = ApplyQueue(value, tgQueue)
    /\ tgQueue' = <<>>
    /\ op' = [name |-> "render", arg |-> 0]
    /\ UNCHANGED <<initial, tgHistory, twVars>>
    /\ UNCHANGED <<vars, lfVars, ctrVars, tdVars, stVars, dbVars>>

ToggleNext == ClickToggle \/ CallToggle \/ CallSetOn \/ CallSetOff \/ RenderHook

---------------------------------------------------------------------------
\* useLocalStorage (src/src/hooks/useToggle.ts, lines 21-47), with T = number

\* The decimal digits, digit d at position d + 1.
Digits == <<"0", "1", "2", "3", "4", "5", "6", "7", "8", "9">>

RECURSIVE Stringify(_)
\* JSON.stringify(n) for a natural number n
Stringify(n) ==
    IF n < 10 THEN <<Digits[n + 1]>>
    ELSE Stringify(n \div 10) \o <<Digits[(n % 10) + 1]>>

IsDigit(ch) == \E d \in DOMAIN Digits : Digits[d] = ch

DigitValue(ch) == (CHOOSE d \in DOMAIN Digits : Digits[d] = ch) - 1

\* The text is a JSON number without sign, fraction or exponent.
ValidNumber(t) ==
    /\ t # <<>>
    /\ \A k \in DOMAIN t : IsDigit(t[k])
    /\ Len(t) > 1 => t[1] # "0"

RECURSIVE ParseDigits(_)
ParseDigits(t) ==
    IF Len(t) = 1 THEN DigitValue(t[1])
    ELSE ParseDigits(SubSeq(t, 1, Len(t) - 1)) * 10 + DigitValue(t[Len(t)])

\* JSON.parse(item): the number, or a SyntaxError
JSONParse(t) ==
    IF ValidNumber(t) THEN [ok |-> TRUE, value |-> ParseDigits(t)]
    ELSE [ok |-> FALSE, value |-> 0]

\* localStorage[key] holding a text.
Item(t) == [present |-> TRUE, text |-> t]

\* What localStorage[key] may hold before the hook is first rendered.
InitialItems ==
    { NoItem,
      Item(<<>>),
      Item(<<"7">>),
      Item(<<"1", "0">>),
      Item(<<"0", "1">>),
      Item(<<"{">>) }

\* initialValue arguments.
InitialValues == {0, 5}

\* Values passed to setValue directly.
DirectValues == {3, 11}

\* "ok": every access works; "denied": every access to localStorage throws;
\* "full": setItem throws (quota exceeded), reads and removals work.
StorageModes == {"ok", "denied", "full"}

\* The useState initialiser.
ReadInitial(mode, item, init) ==
    IF mode = "denied" THEN init
    ELSE IF ~item.present \/ item.text = <<>> THEN init
    ELSE IF JSONParse(item.text).ok THEN JSONParse(item.text).value
    ELSE init

\* value(storedValue) for the updater (prev) => prev + 1
UpdaterResult == storedValue + 1

\* setStoredValue(valueToStore); localStorage.setItem(key, JSON.stringify(valueToStore))
StoreValue(v) ==
    /\ lsQueued' = [has |-> TRUE, value |-> v]
    /\ IF lsMode = "ok"
       THEN storage' = Item(Stringify(v)) /\ lsThrew' = FALSE
       ELSE UNCHANGED storage /\ lsThrew' = TRUE

\* The hook as first rendered, in some storage; the other components are not
\* rendered.
StorageInit ==
    /\ op = NoOp
    /\ lsMode \in StorageModes
    /\ lsInitial \in InitialValues
    /\ storage \in IF lsMode = "denied" THEN {NoItem} ELSE InitialItems
    /\ storedValue = ReadInitial(lsMode, storage, lsInitial)
    /\ lsQueued = NoQueued
    /\ lsThrew = FALSE
    /\ lsCalls = 0
    /\ users = <<>>
    /\ loading = TRUE
    /\ error = Null
    /\ fetchUsers = "f"
    /\ phase = "rendered"
    /\ effects = <<>>
    /\ fetchCalls = <<>>
    /\ propChanges = 0
    /\ email = <<>>
    /\ password = <<>>
    /\ errors = NoErrors
    /\ isSubmitting = FALSE
    /\ success = FALSE
    /\ submission = NoSubmission
    /\ submitCalls = <<>>
    /\ initialCount = 0
    /\ step = 1
    /\ max = NoMax
    /\ count = 0
    /\ countCalls = <<>>
    /\ todos = <<>>
    /\ input = <<>>
    /\ filter = "all"
    /\ now = 0
    /\ defaultOn = FALSE
    /\ isOn = FALSE
    /\ toggleCalls = <<>>
    /\ initial = FALSE
    /\ value = FALSE
    /\ tgQueue = <<>>
    /\ tgHistory = <<>>
    /\ delay = 0
    /\ dbNow = 0
    /\ timers = {}
    /\ timeoutId = 0
    /\ dbLog = <<>>

\* setValue(v)
SetValueDirect ==
    /\ lsCalls < MaxStorageCalls
    /\ \E v \in DirectValues :
          /\ StoreValue(v)
          /\ op' = [name |-> "setValue", arg |-> v]
    /\ lsCalls' = lsCalls + 1
    /\ UNCHANGED <<lsMode, lsInitial, storedValue>>
    /\ UNCHANGED <<vars, lfVars, ctrVars, tdVars, twVars, utVars, dbVars>>

\* setValue((prev) => prev + 1)
SetValueUpdater ==
    /\ lsCalls < MaxStorageCalls
    /\ UpdaterResult <= MaxStored
    /\ StoreValue(UpdaterResult)
    /\ op' = [name |-> "setUpdater", arg |-> UpdaterResult]
    /\ lsCalls' = lsCalls + 1
    /\ UNCHANGED <<lsMode, lsInitial, storedValue>>
    /\ UNCHANGED <<vars, lfVars, ctrVars, tdVars, twVars, utVars, dbVars>>

\* removeValue()
RemoveValue ==
    /\ lsCalls < MaxStorageCalls
    /\ lsQueued' = [has |-> TRUE, value |-> lsInitial]
    /\ IF lsMode = "denied"
       THEN UNCHANGED storage /\ lsThrew' = TRUE
       ELSE storage' = NoItem /\ lsThrew' = FALSE
    /\ op' = [name |-> "remove", arg |-> lsInitial]
    /\ lsCalls' = lsCalls + 1
    /\ UNCHANGED <<lsMode, lsInitial, storedValue>>
    /\ UNCHANGED <<vars, lfVars, ctrVars, tdVars, twVars, utVars, dbVars>>

\* The render that follows one or more calls; setValue is re-created with
\* the new storedValue.
RenderStorage ==
    /\ lsQueued.has
    /\ storedValue' = lsQueued.value
    /\ lsQueued' = NoQueued
    /\ op' = [name |-> "render", arg |-> 0]
    /\ UNCHANGED <<lsMode, lsInitial, storage, lsThrew, lsCalls>>
    /\ UNCHANGED <<vars, lfVars, ctrVars, tdVars, twVars, utVars, dbVars>>

StorageNext == SetValueDirect \/ SetValueUpdater \/ RemoveValue \/ RenderStorage

---------------------------------------------------------------------------
\* debounce (src/src/utils/helpers.ts, lines 48-57), under a timer clock
\* that fires a timer at the millisecond it is due

\* delay arguments.
Delays == {0, 1, 2}

\* Argument lists the debounced function is called with.
DebounceArgs == {"x", "y"}

\* A clearTimeout that clears nothing.
ClearTimeoutNoop(ts, id) == ts

\* clearTimeout(timeoutId); an unassigned or past id clears nothing.
ClearTimeout(ts, id) == {tm \in ts : tm.id # id}

\* setTimeout(() => fn(...args), delay): the timer, with the next id
SetTimeout(a) == [id |-> timeoutId + 1, due |-> dbNow + delay, args |-> a]

\* debounce(fn, delay) has returned and nothing was called yet; the components
\* are not rendered.
DebounceInit ==
    /\ op = NoOp
    /\ delay \in Delays
    /\ dbNow = 0
    /\ timers = {}
    /\ timeoutId = 0
    /\ dbLog = <<>>
    /\ users = <<>>
    /\ loading = TRUE
    /\ error = Null
    /\ fetchUsers = "f"
    /\ phase = "rendered"
    /\ effects = <<>>
    /\ fetchCalls = <<>>
    /\ propChanges = 0
    /\ email = <<>>
    /\ password = <<>>
    /\ errors = NoErrors
    /\ isSubmitting = FALSE
    /\ success = FALSE
    /\ submission = NoSubmission
    /\ submitCalls = <<>>
    /\ initialCount = 0
    /\ step = 1
    /\ max = NoMax
    /\ count = 0
    /\ countCalls = <<>>
    /\ todos = <<>>
    /\ input = <<>>
    /\ filter = "all"
    /\ now = 0
    /\ defaultOn = FALSE
    /\ isOn = FALSE
    /\ toggleCalls = <<>>
    /\ initial = FALSE
    /\ value = FALSE
    /\ tgQueue = <<>>
    /\ tgHistory = <<>>
    /\ lsMode = "ok"
    /\ lsInitial = 0
    /\ storedValue = 0
    /\ lsQueued = NoQueued
    /\ storage = NoItem
    /\ lsThrew = FALSE
    /\ lsCalls = 0

\* A call of the debounced function.
CallDebounced ==
    /\ timeoutId < MaxDebounceCalls
    /\ dbNow + delay <= MaxClock
    /\ \E a \in DebounceArgs :
          /\ timers' = ClearTimeout(timers, timeoutId) \cup {SetTimeout(a)}
          /\ timeoutId' = SetTimeout(a).id
          /\ dbLog' = Append(dbLog, [kind |-> "call", t |-> dbNow, args |-> a])
    /\ op' = [name |-> "call", arg |-> 0]
    /\ UNCHANGED <<delay, dbNow>>
    /\ UNCHANGED <<vars, lfVars, ctrVars, tdVars, twVars, utVars, stVars>>

\* A due timer runs its callback: fn(...args).
FireTimer ==
    /\ \E tm \in timers :
          /\ tm.due <= dbNow
          /\ timers' = timers \ {tm}
          /\ dbLog' = Append(dbLog, [kind |-> "fn", t |-> dbNow, args |-> tm.args])
    /\ op' = [name |-> "fire", arg |-> 0]
    /\ UNCHANGED <<delay, dbNow, timeoutId>>
    /\ UNCHANGED <<vars, lfVars, ctrVars, tdVars, twVars, utVars, stVars>>

\* A millisecond passes; due timers run first.
TickClock ==
    /\ dbNow < MaxClock
    /\ \A tm \in timers : tm.due > dbNow
    /\ dbNow' = dbNow + 1
    /\ op' = [name |-> "tick", arg |-> dbNow + 1]
    /\ UNCHANGED <<delay, timers, timeoutId, dbLog>>
    /\ UNCHANGED <<vars, lfVars, ctrVars, tdVars, twVars, utVars, stVars>>

DebounceNext == CallDebounced \/ FireTimer \/ TickClock

---------------------------------------------------------------------------
\* Specifications

Spec == Init /\ [][Next]_allVars

SpecLogin == LoginInit /\ [][LoginNext]_allVars

SpecCounter == CounterInit /\ [][CounterNext]_allVars

SpecTodo == TodoInit /\ [][TodoNext]_allVars

SpecToggle == ToggleInit /\ [][ToggleNext]_allVars

SpecStorage == StorageInit /\ [][StorageNext]_allVars

\* The runtime runs a due timer, and time passes.
SpecDebounce ==
    /\ DebounceInit
    /\ [][DebounceNext]_allVars
    /\ WF_allVars(FireTimer)
    /\ WF_allVars(TickClock)

---------------------------------------------------------------------------
\* Properties

\* The message the source's catch computes for a rejection value, written out.
MessageFor(r) == IF r.kind = "Error" THEN r.message ELSE "Something went wrong"

\* load() of run i passes its await in this step.
Resumes(i) ==
    /\ i \in 1..Len(effects)
    /\ effects[i].pc = "await"
    /\ effects'[i].pc = "done"

\* On a mounted component whose latest run has settled, the fields are the
\* outcome of that run.
ReflectsLatest ==
    (phase = "mounted" /\ Cur.pc = "done") =>
        /\ ~loading
        /\ Cur.promise = "fulfilled" => users = Cur.data /\ error = Null
        /\ Cur.promise \in {"rejected", "threw"} =>
               users = Cur.usersAtStart /\ error = Str(MessageFor(Cur.reason))

\* C1: when run A is superseded by a newer run B while pending, A's
\* settlement (fulfilled or rejected, before or after B's) writes none of
\* users, error and loading and does not commit; a run commits only while it
\* is the latest one; and once the latest run has settled on a mounted
\* component the fields are exactly that run's outcome.
C1_StaleDiscarded ==
    [][ /\ \A i \in 1..Len(effects) :
              (Resumes(i) /\ i < Len(effects)) =>
                  /\ UNCHANGED <<users, loading, error>>
                  /\ ~effects'[i].committed
        /\ \A i \in 1..Len(effects) :
              (~effects[i].committed /\ effects'[i].committed) => i = Len(effects)
        /\ ReflectsLatest'
      ]_vars

\* Both of two overlapping runs have settled: A fulfilled and was discarded,
\* B rejected and committed.
C1_Witness ==
    /\ Len(effects) = 2
    /\ phase = "mounted"
    /\ effects[1].pc = "done" /\ effects[1].promise = "fulfilled"
    /\ ~effects[1].committed
    /\ effects[2].pc = "done" /\ effects[2].promise = "rejected"
    /\ effects[2].committed

\* C2: once the component is unmounted no step changes users, error or
\* loading, and after an unmount with the latest run still pending the state
\* is Loading, whether or not that run's promise has settled meanwhile.
C2_NoCommitAfterDispose ==
    [][ /\ phase = "unmounted" => UNCHANGED <<users, loading, error>>
        /\ (phase = "mounted" /\ phase' = "unmounted" /\ Cur.pc = "await") =>
               State' = "Loading"
      ]_vars

\* The run that was pending at unmount has since settled and resumed, and
\* the state is still Loading.
C2_Witness ==
    /\ phase = "unmounted"
    /\ Len(effects) >= 1
    /\ Cur.pc = "done" /\ Cur.promise \in {"fulfilled", "rejected"}
    /\ Cur.cancelled /\ ~Cur.committed
    /\ State = "Loading"

\* C3: users is non-empty only in Success, error is set (as the render tests
\* it) exactly in Failure, the two are never both set, and both are absent
\* while Loading.
C3_StateExclusivity ==
    /\ users # <<>> => State = "Success"
    /\ Truthy(error) <=> State = "Failure"
    /\ ~(users # <<>> /\ Truthy(error))
    /\ State = "Loading" => users = <<>> /\ error = Null

C5_ErrorNeverEmpty ==
    (phase = "mounted" /\ Cur.pc = "done" /\ Cur.promise = "rejected") =>
        /\ ~error.isNull
        /\ error.str # ""
        /\ State = "Failure"

C7_SettleLeavesLoading ==
    (phase = "mounted" /\ Cur.pc = "done" /\ Cur.promise \in {"fulfilled", "rejected"}) =>
        /\ ~loading
        /\ Cur.promise = "fulfilled" =>
               State = "Success" /\ users = Cur.data /\ error = Null
        /\ Cur.promise = "rejected" => State = "Failure"

\* C8 as stated: every change of the observable state leaves from Loading
\* (to Success or to Failure).
C8_OnlyFromLoading ==
    [][ State' # State => (State = "Loading" /\ State' \in {"Success", "Failure"}) ]_vars

\* C8 amended: without a start the state changes only from Loading to Success
\* or Failure, in the step in which the latest run resumes on a mounted
\* component; a start leads from any state to Loading, or straight to a
\* settled state when fetchUsers throws synchronously.
C8_Transitions ==
    [][ /\ (Len(effects') = Len(effects) /\ State' # State) =>
               /\ State = "Loading"
               /\ State' \in {"Success", "Failure"}
               /\ phase = "mounted"
               /\ Resumes(Len(effects))
        /\ Len(effects') > Len(effects) =>
               (State' = "Loading" \/ Cur'.promise = "threw")
      ]_vars

\* A retrigger after a committed fulfilment: Success has become Loading.
C8_Witness ==
    /\ Len(effects) = 2
    /\ effects[1].committed /\ effects[1].promise = "fulfilled"
    /\ Cur.pc = "await"
    /\ State = "Loading"

\* C9: fetchUsers has been called once for the mount and once per change of
\* the fetchUsers prop, each time with no argument; no settlement adds a call.
C9_OneCallPerCycle ==
    /\ Len(fetchCalls) = (IF phase = "rendered" THEN 0 ELSE 1) + propChanges
    /\ Len(fetchCalls) = Len(effects)
    /\ \A k \in 1..Len(fetchCalls) : fetchCalls[k] = <<>>

\* Three runs, of which one rejected and one fulfilled have both resumed.
C9_Witness ==
    /\ propChanges = 2
    /\ Len(fetchCalls) = 3
    /\ \E i, j \in 1..Len(effects) :
          /\ effects[i].pc = "done" /\ effects[i].promise = "rejected"
          /\ effects[j].pc = "done" /\ effects[j].promise = "fulfilled"

\* C10: the promise returned by load() never rejects, and a rejection or a
\* synchronous throw of the latest run on a mounted component has become
\* Failure.
C10_FailuresAbsorbed ==
    /\ \A i \in 1..Len(effects) : effects[i].returned # "rejected"
    /\ (phase = "mounted" /\ Cur.pc = "done" /\ Cur.promise \in {"rejected", "threw"}) =>
           State = "Failure"

---------------------------------------------------------------------------
\* Properties of the LoginForm

\* The values pass the three checks of validate().
ValidInput(e, p) == e # <<>> /\ EmailRegexTest(e) /\ Len(p) >= 6

\* C11: a click on the submit button calls onSubmit only if the email is
\* non-empty and matches the pattern and the password has at least 6
\* characters; otherwise errors holds exactly the matching field messages,
\* onSubmit is not called and isSubmitting and success stay false.
C11_SubmitOnlyIfValid ==
    [][ op'.name = "submit" =>
          /\ submitCalls' # submitCalls => ValidInput(email, password)
          /\ ~ValidInput(email, password) =>
                /\ ("email" \in DOMAIN errors') <=> (email = <<>> \/ ~EmailRegexTest(email))
                /\ email = <<>> => errors'["email"] = "Email is required"
                /\ (email # <<>> /\ ~EmailRegexTest(email)) =>
                       errors'["email"] = "Invalid email format"
                /\ ("password" \in DOMAIN errors') <=> Len(password) < 6
                /\ password = <<>> => errors'["password"] = "Password is required"
                /\ (password # <<>> /\ Len(password) < 6) =>
                       errors'["password"] = "Password must be at least 6 characters"
                /\ "form" \notin DOMAIN errors'
                /\ submitCalls' = submitCalls
                /\ ~isSubmitting' /\ ~success'
      ]_allVars

\* A submit with a malformed email and a short password has been refused.
C11_Witness ==
    /\ op.name = "submit"
    /\ DOMAIN errors = {"email", "password"}
    /\ errors["email"] = "Invalid email format"
    /\ errors["password"] = "Password must be at least 6 characters"
    /\ submitCalls = <<>>

\* C12: a validated submit calls onSubmit once, with the email and password
\* of that moment, and no other step calls it; when its promise resolves,
\* success is true, email and password are empty, errors is empty and
\* isSubmitting is false.
C12_ResolvedSubmission ==
    [][ /\ (op'.name = "submit" /\ ValidInput(email, password)) =>
               submitCalls' = Append(submitCalls, [email |-> email, password |-> password])
        /\ (op'.name # "submit" \/ ~ValidInput(email, password)) =>
               submitCalls' = submitCalls
        /\ op'.name = "resolve" =>
               /\ submitCalls[Len(submitCalls)] =
                      [email |-> submission.email, password |-> submission.password]
               /\ success'
               /\ email' = <<>> /\ password' = <<>>
               /\ errors' = NoErrors
               /\ ~isSubmitting'
      ]_allVars

\* The second of two submissions has resolved.
C12_Witness ==
    /\ op.name = "resolve"
    /\ success
    /\ Len(submitCalls) = 2
    /\ email = <<>>

\* C13: when onSubmit rejects or throws, errors is exactly the form error,
\* success stays false, email and password keep their values, isSubmitting is
\* false and handleSubmit's own promise is fulfilled.
C13_RejectedSubmission ==
    [][ (\/ op'.name = "reject"
         \/ (op'.name = "submit" /\ submitCalls' # submitCalls
               /\ submission'.status = "threw")) =>
          /\ errors' = FormError
          /\ ~success'
          /\ email' = email /\ password' = password
          /\ ~isSubmitting'
          /\ submission'.returned = "fulfilled"
      ]_allVars

\* A submission has been rejected after the user changed the email field
\* while it was pending.
C13_Witness ==
    /\ op.name = "reject"
    /\ errors = FormError
    /\ email # submission.email
    /\ password # <<>>

\* C14: isSubmitting is true exactly while a validated submission awaits
\* onSubmit; while it is true the submit button is disabled and reads
\* "Signing in..."; a submission whose promise never settles stays pending.
C14_IsSubmittingWhilePending ==
    /\ [](/\ isSubmitting <=> submission.status = "pending"
          /\ FormRendered =>
                /\ SubmitDisabled <=> isSubmitting
                /\ (SubmitLabel = "Signing in...") <=> isSubmitting)
    /\ [][ (submission.status = "pending" /\ submission.never) =>
               (isSubmitting' /\ submission' = submission) ]_allVars

\* A submission that never settles is pending and the user has typed since.
C14_Witness ==
    /\ submission.status = "pending"
    /\ submission.never
    /\ isSubmitting
    /\ email # submission.email

---------------------------------------------------------------------------
\* Properties of the Counter

\* The step is a click on one of the three buttons.
Clicked == op'.name \in {"increment", "decrement", "reset"}

\* The value a click asks update() for exceeds the defined max.
ExceedsMax(n) == max.defined /\ n > max.value

\* C15: with max defined and initialCount <= max, count never exceeds max;
\* an update whose result would exceed max leaves count unchanged; Increment
\* is disabled and the alert is shown exactly where count >= max, and no
\* Increment click happens there.
C15_CountWithinMax ==
    /\ [](/\ (max.defined /\ initialCount <= max.value) => count <= max.value
          /\ IncrementDisabled <=> (max.defined /\ count >= max.value)
          /\ AlertShown <=> (max.defined /\ count >= max.value))
    /\ [][ /\ (Clicked /\ ExceedsMax(op'.arg)) => count' = count
           /\ op'.name = "increment" => ~(max.defined /\ count >= max.value)
         ]_allVars

\* An Increment click that would have exceeded max was refused below max.
C15_Witness ==
    /\ op.name = "increment"
    /\ max.defined
    /\ op.arg > max.value
    /\ count < max.value
    /\ initialCount <= max.value
    /\ countCalls # <<>>

\* C16: every accepted update calls onCountChange once with the new count,
\* in order; a rejected update never calls it; after any call its last
\* argument is the current count.
C16_CallbackPerAcceptedChange ==
    /\ [](countCalls # <<>> => countCalls[Len(countCalls)] = count)
    /\ [][ /\ (Clicked /\ ~ExceedsMax(op'.arg)) =>
                  /\ count' = op'.arg
                  /\ countCalls' = Append(countCalls, op'.arg)
           /\ (Clicked /\ ExceedsMax(op'.arg)) => countCalls' = countCalls
           /\ ~Clicked => countCalls' = countCalls
         ]_allVars

\* Three increments from 0 with step 1 have produced the calls 1, 2, 3.
C16_Witness ==
    /\ initialCount = 0
    /\ step = 1
    /\ countCalls = <<1, 2, 3>>
    /\ count = 3

\* C17 as stated: the Reset button is rendered iff count # 0, and a click on
\* it sets count to 0 and reports 0, for any initialCount, step and max.
C17_ResetToZero ==
    /\ [](ResetRendered <=> count # 0)
    /\ [][ op'.name = "reset" =>
              (count' = 0 /\ countCalls' = Append(countCalls, 0)) ]_allVars

\* C17 amended: the Reset button is rendered iff count # 0; a click on it
\* sets count to 0 and reports 0 when max is undefined or max >= 0, and
\* changes nothing and reports nothing when max < 0.
C17_ResetUnlessNegativeMax ==
    /\ [](ResetRendered <=> count # 0)
    /\ [][ op'.name = "reset" =>
              /\ count # 0
              /\ IF max.defined /\ max.value < 0
                 THEN count' = count /\ countCalls' = countCalls
                 ELSE /\ count' = 0
                      /\ countCalls' = Append(countCalls, 0)
                      /\ ~ResetRendered'
         ]_allVars

\* A Reset click has returned a bounded counter to 0 after another change.
C17_Witness ==
    /\ op.name = "reset"
    /\ count = 0
    /\ max.defined
    /\ Len(countCalls) >= 2
    /\ countCalls[Len(countCalls)] = 0

\* C18 as stated: a click on an enabled Increment sets count to count + step
\* and a click on Decrement sets count to count - step, for any props.
C18_StepApplied ==
    [][ /\ op'.name = "increment" => count' = count + step
        /\ op'.name = "decrement" => count' = count - step
      ]_allVars

\* C18 amended: a click on an enabled Increment sets count to count + step
\* and a click on Decrement sets count to count - step, unless that value
\* exceeds a defined max; then count is unchanged.
C18_StepAppliedWithinMax ==
    [][ /\ op'.name = "increment" =>
              count' = IF max.defined /\ count + step > max.value
                       THEN count ELSE count + step
        /\ op'.name = "decrement" =>
              count' = IF max.defined /\ count - step > max.value
                       THEN count ELSE count - step
      ]_allVars

\* A Decrement click has lowered a bounded counter by a step of 5.
C18_Witness ==
    /\ op.name = "decrement"
    /\ step = 5
    /\ max.defined
    /\ countCalls = <<count>>
    /\ count = initialCount - 5

---------------------------------------------------------------------------
\* Properties of the TodoList

\* s consists of whitespace only (the empty string included).
AllSpace(s) == \A k \in DOMAIN s : s[k] \in Whitespace

\* t is s without its leading and trailing whitespace.
IsTrimOf(t, s) ==
    \E i, j \in DOMAIN s :
        /\ i <= j
        /\ t = SubSeq(s, i, j)
        /\ s[i] \notin Whitespace /\ s[j] \notin Whitespace
        /\ \A k \in DOMAIN s : (k < i \/ k > j) => s[k] \in Whitespace

\* C19: addTodo with an input whose trimmed text is empty leaves todos and
\* input unchanged; otherwise it appends one todo with the trimmed text and
\* completed = false at the end, keeps the existing todos unchanged and in
\* order, and clears input.
C19_AddTodo ==
    [][ op'.name = "add" =>
          IF AllSpace(input)
          THEN todos' = todos /\ input' = input
          ELSE /\ Len(todos') = Len(todos) + 1
               /\ SubSeq(todos', 1, Len(todos)) = todos
               /\ IsTrimOf(todos'[Len(todos')].text, input)
               /\ ~todos'[Len(todos')].completed
               /\ input' = <<>>
      ]_allVars

\* A second todo has been added from an input with whitespace on both sides,
\* after the first one was completed.
C19_Witness ==
    /\ op.name = "add"
    /\ Len(todos) = 2
    /\ todos[1].completed
    /\ todos[2].text = <<"a">>
    /\ ~todos[2].completed
    /\ input = <<>>

\* C20: toggling the displayed todo at position op.arg flips the completed
\* flag of that todo only and leaves its text, the order and every other
\* todo unchanged; toggling it again restores the list.
C20_ToggleFlipsOne ==
    [][ op'.name = "toggle" =>
          /\ Len(todos') = Len(todos)
          /\ \A k \in DOMAIN todos :
                todos'[k] = IF k = op'.arg
                            THEN [todos[k] EXCEPT !.completed = ~@]
                            ELSE todos[k]
          /\ MapToggle(todos', todos[op'.arg].id) = todos
      ]_allVars

\* s without its element at position i.
RemoveAt(s, i) == SubSeq(s, 1, i - 1) \o SubSeq(s, i + 1, Len(s))

\* C21: deleting the displayed todo at position op.arg removes exactly that
\* todo: todos shrinks by one element and all the others remain, unchanged
\* and in the same order.
C21_DeleteRemovesOne ==
    [][ op'.name = "delete" =>
          /\ Len(todos') = Len(todos) - 1
          /\ todos' = RemoveAt(todos, op'.arg)
      ]_allVars

\* The todo matches the filter value f.
Matches(t, f) ==
    \/ f = "all"
    \/ f = "active" /\ t.completed = FALSE
    \/ f = "completed" /\ t.completed = TRUE

MatchesFilter(t) == Matches(t, filter)

NotCompleted(t) == ~t.completed

\* C22: the displayed list is the subsequence of todos matching the filter,
\* in insertion order; the active count is the number of not-completed todos
\* of the full list; changing the filter never changes todos.
C22_FilterAndActiveCount ==
    /\ [](/\ FilteredTodos = SelectSeq(todos, MatchesFilter)
          /\ ActiveCount = Len(SelectSeq(todos, NotCompleted)))
    /\ [][ op'.name = "filter" => todos' = todos ]_allVars

\* The "completed" filter shows one of two todos, the second one.
C22_Witness ==
    /\ op.name = "filter"
    /\ filter = "completed"
    /\ Len(todos) = 2
    /\ ~todos[1].completed
    /\ FilteredTodos = <<todos[2]>>
    /\ ActiveCount = 1

---------------------------------------------------------------------------
\* Properties of the Toggle widget and of useToggle

\* b negated n times.
FlipN(b, n) == IF n % 2 = 0 THEN b ELSE ~b

\* C23: each click flips isOn and calls onToggle once with the new value:
\* after n clicks isOn is defaultOn flipped n times and the arguments of
\* onToggle alternate, starting with ~defaultOn.
C23_ToggleFlips ==
    /\ [](/\ isOn = FlipN(defaultOn, Len(toggleCalls))
          /\ AriaChecked = isOn
          /\ \A i \in DOMAIN toggleCalls : toggleCalls[i] = FlipN(defaultOn, i))
    /\ [][ /\ op'.name = "click" =>
                 /\ isOn' = ~isOn
                 /\ toggleCalls' = Append(toggleCalls, ~isOn)
           /\ op'.name # "click" => toggleCalls' = toggleCalls /\ isOn' = isOn
         ]_allVars

\* Three clicks on a widget that started on.
C23_Witness ==
    /\ op.name = "click"
    /\ defaultOn
    /\ toggleCalls = <<FALSE, TRUE, FALSE>>
    /\ ~isOn

\* The position of the last setOn / setOff in h, 0 if there is none.
LastSet(h) ==
    IF \E i \in DOMAIN h : h[i] # "toggle"
    THEN CHOOSE i \in DOMAIN h :
             /\ h[i] # "toggle"
             /\ \A j \in DOMAIN h : j > i => h[j] = "toggle"
    ELSE 0

\* The value set by the last setOn / setOff (or the initial value), flipped
\* once per toggle() called since.
ExpectedValue ==
    LET k == LastSet(tgHistory)
        base == IF k = 0 THEN initial ELSE tgHistory[k] = "on"
    IN FlipN(base, Len(tgHistory) - k)

\* C24: once the calls made so far are rendered, value is the value set by
\* the last setOn / setOff (or the initial value) flipped once per toggle()
\* since; a render after toggle() alone negates value, after setOn() value is
\* true and after setOff() false, also when the call is repeated.
C24_UseToggle ==
    /\ [](tgQueue = <<>> => value = ExpectedValue)
    /\ [][ op'.name = "render" =>
              /\ tgQueue = <<"toggle">> => value' = ~value
              /\ tgQueue \in {<<"on">>, <<"on", "on">>} => value' = TRUE
              /\ tgQueue \in {<<"off">>, <<"off", "off">>} => value' = FALSE
         ]_allVars

\* setOff and three toggles, the last two of them in one batch.
C24_Witness ==
    /\ op.name = "render"
    /\ tgQueue = <<>>
    /\ tgHistory = <<"off", "toggle", "toggle", "toggle">>
    /\ value

---------------------------------------------------------------------------
\* Properties of useLocalStorage

\* The stored value as of the next render.
Latest == IF lsQueued.has THEN lsQueued.value ELSE storedValue

\* C25: setValue((prev) => prev + 1) sets the stored value to the previous
\* stored value plus one and writes its JSON to localStorage, with or
\* without a render since the previous call (storage working).
C25_UpdaterFromPrevious ==
    [][ (op'.name = "setUpdater" /\ lsMode = "ok") =>
          LET prev == Latest IN
             /\ Latest' = prev + 1
             /\ storage' = Item(Stringify(prev + 1))
      ]_allVars

\* C27: after setValue(v) the state is v and localStorage[key] is
\* JSON.stringify(v); after removeValue the state is initialValue and the key
\* is absent; when the read at initialisation fails the state is
\* initialValue.
C27_StateAndStorageAgree ==
    /\ [](op = NoOp =>
            ((lsMode = "denied" \/ (storage.present /\ ~ValidNumber(storage.text)))
                 => storedValue = lsInitial))
    /\ [][ /\ op'.name \in {"setValue", "setUpdater"} =>
                 /\ Latest' = op'.arg
                 /\ storage' = Item(Stringify(op'.arg))
           /\ op'.name = "remove" =>
                 /\ Latest' = lsInitial
                 /\ storage' = NoItem
         ]_allVars

---------------------------------------------------------------------------
\* Properties of debounce

\* C26: a call never invokes fn itself; every invocation of fn directly
\* follows the call whose arguments it passes, delay ms after that call; the
\* call made last has exactly one timer pending, due delay ms after it, and
\* no other timer is pending; and that timer's invocation does happen unless
\* another call comes first.
C26_Debounce ==
    /\ [](/\ Cardinality(timers) <= 1
          /\ \A p \in DOMAIN dbLog :
                dbLog[p].kind = "fn" =>
                   /\ p > 1
                   /\ dbLog[p - 1].kind = "call"
                   /\ dbLog[p].args = dbLog[p - 1].args
                   /\ dbLog[p].t = dbLog[p - 1].t + delay
          /\ IF dbLog # <<>> /\ dbLog[Len(dbLog)].kind = "call"
             THEN /\ \E tm \in timers :
                        /\ tm.due = dbLog[Len(dbLog)].t + delay
                        /\ tm.args = dbLog[Len(dbLog)].args
                        /\ tm.due >= dbNow
             ELSE timers = {})
    /\ [][ op'.name = "call" =>
              /\ Len(dbLog') = Len(dbLog) + 1
              /\ SubSeq(dbLog', 1, Len(dbLog)) = dbLog
              /\ dbLog'[Len(dbLog')].kind = "call"
         ]_allVars
    /\ \A n \in 1..(2 * MaxDebounceCalls) :
          (Len(dbLog) = n /\ dbLog[n].kind = "call") ~> (Len(dbLog) > n)

\* A burst of two calls one millisecond apart, with different arguments, has
\* ended with one invocation of fn.
C26_Witness ==
    /\ delay = 2
    /\ Len(dbLog) = 3
    /\ dbLog[1].kind = "call"
    /\ dbLog[2].kind = "call"
    /\ dbLog[2].t = dbLog[1].t + 1
    /\ dbLog[2].args # dbLog[1].args
    /\ dbLog[3].kind = "fn"
    /\ dbLog[3].args = dbLog[2].args
    /\ timers = {}

====
